---------------------------- MODULE Spec2Model ----------------------------
(***************************************************************************)
(* Model of the comment pipeline of seniorsemYTComments:                   *)
(*   preprocess_comments (src/youtube_api.py)  text normaliser             *)
(*   analyze_sentiment   (src/youtube_api.py)  VADER-based scorer          *)
(*   cluster_comments    (src/clustering.py)   K-Means cluster engine      *)
(*   cluster_comments_endpoint (src/app.py)    the all-in-one pipeline     *)
(*                                                                         *)
(* Numbers: the scorer's raw outputs are modelled in ten-thousandths       *)
(* (VADER rounds its compound to 4 places), returned sentiment values in   *)
(* thousandths (round(x, 3)).                                              *)
(***************************************************************************)
EXTENDS Integers, Sequences, FiniteSets, TLC

VARIABLES
    \* normaliser harness
    npc, raw, cleaned, recleaned,
    \* scorer harness
    spc, s_text, s_outcome, s_result, s_consulted,
    \* cluster engine harness
    cpc, c_comments, c_k, c_result,
    \* the /api/cluster-comments request
    pc, p_comments, p_num_clusters, p_idx, raised, cluster_input, response

normVars == <<npc, raw, cleaned, recleaned>>

scoreVars == <<spc, s_text, s_outcome, s_result, s_consulted>>

clusterVars == <<cpc, c_comments, c_k, c_result>>

pipeVars == <<pc, p_comments, p_num_clusters, p_idx, raised, cluster_input, response>>

vars == <<normVars, scoreVars, clusterVars, pipeVars>>

(***************************************************************************)
(* Python values.                                                          *)
(***************************************************************************)
None == [type |-> "NoneType"]

Str(s) == [type |-> "str", val |-> s]

\* Python truthiness of None and of a str: `not text`.
NotText(text) == text.type = "NoneType" \/ (text.type = "str" /\ Len(text.val) = 0)

(***************************************************************************)
(* Characters.  A string is a sequence of one-character strings; "emoji"   *)
(* stands for one pictographic code point.                                 *)
(***************************************************************************)
LowerWord == {"h", "t", "p", "w"}

UpperWord == {"H"}

ToLower(c) == IF c = "H" THEN "h" ELSE c

\* \w
IsWord(c) == c \in LowerWord \cup UpperWord

\* \s
IsSpace(c) == c = " "

IsEmoji(c) == c = "emoji"

\* the punctuation kept by [^\w\s.,!?\-\'\"]
KeptPunct == {".", ",", "!", "?", "-", "'", "\""}

Alphabet == LowerWord \cup UpperWord \cup {".", "<", ">", "@", " ", "emoji"}

MaxLen == 5

\* every string of at most n characters
Strings(n) == UNION {[1..m -> Alphabet] : m \in 0..n}

(***************************************************************************)
(* preprocess_comments, step by step.                                      *)
(***************************************************************************)
NotEmoji(c) == ~IsEmoji(c)

\* emoji.replace_emoji(text, replace='')
replace_emoji(s) == SelectSeq(s, NotEmoji)

RECURSIVE NonSpaceRunEnd(_, _)
\* last index of the run of \S characters that starts at i (s[i] is \S)
NonSpaceRunEnd(s, i) ==
    IF i < Len(s) /\ ~IsSpace(s[i + 1]) THEN NonSpaceRunEnd(s, i + 1) ELSE i

HasAt(s, i, lit) ==
    /\ i + Len(lit) - 1 <= Len(s)
    /\ \A j \in 1..Len(lit) : s[i + j - 1] = lit[j]

\* end of the match of  http\S+|www\.\S+  at position i, 0 when there is none
UrlMatchEnd(s, i) ==
    IF HasAt(s, i, <<"h", "t", "t", "p">>) /\ i + 4 <= Len(s) /\ ~IsSpace(s[i + 4])
    THEN NonSpaceRunEnd(s, i + 4)
    ELSE IF HasAt(s, i, <<"w", "w", "w", ".">>) /\ i + 4 <= Len(s) /\ ~IsSpace(s[i + 4])
         THEN NonSpaceRunEnd(s, i + 4)
         ELSE 0

RECURSIVE SubUrls(_, _)
\* re.sub(r'http\S+|www\.\S+', '', text)
SubUrls(s, i) ==
    IF i > Len(s) THEN <<>>
    ELSE LET e == UrlMatchEnd(s, i)
         IN  IF e > 0 THEN SubUrls(s, e + 1) ELSE <<s[i]>> \o SubUrls(s, i + 1)

\* end of the match of  <.*?>  at position i, 0 when there is none
TagMatchEnd(s, i) ==
    IF s[i] = "<" /\ \E j \in (i + 1)..Len(s) : s[j] = ">"
    THEN CHOOSE j \in (i + 1)..Len(s) :
            s[j] = ">" /\ \A m \in (i + 1)..(j - 1) : s[m] # ">"
    ELSE 0

RECURSIVE SubTags(_, _)
\* re.sub(r'<.*?>', '', text)
SubTags(s, i) ==
    IF i > Len(s) THEN <<>>
    ELSE LET e == TagMatchEnd(s, i)
         IN  IF e > 0 THEN SubTags(s, e + 1) ELSE <<s[i]>> \o SubTags(s, i + 1)

Kept(c) == IsWord(c) \/ IsSpace(c) \/ c \in KeptPunct

\* re.sub(r'[^\w\s.,!?\-\'\"]', '', text)
SubSymbols(s) == SelectSeq(s, Kept)

RECURSIVE SpaceRunEnd(_, _)
\* last index of the run of \s characters that starts at i (s[i] is \s)
SpaceRunEnd(s, i) ==
    IF i < Len(s) /\ IsSpace(s[i + 1]) THEN SpaceRunEnd(s, i + 1) ELSE i

RECURSIVE SubSpaces(_, _)
\* re.sub(r'\s+', ' ', text)
SubSpaces(s, i) ==
    IF i > Len(s) THEN <<>>
    ELSE IF IsSpace(s[i])
         THEN <<" ">> \o SubSpaces(s, SpaceRunEnd(s, i) + 1)
         ELSE <<s[i]>> \o SubSpaces(s, i + 1)

RECURSIVE LStrip(_)
LStrip(s) == IF Len(s) > 0 /\ IsSpace(s[1]) THEN LStrip(Tail(s)) ELSE s

RECURSIVE RStrip(_)
RStrip(s) ==
    IF Len(s) > 0 /\ IsSpace(s[Len(s)]) THEN RStrip(SubSeq(s, 1, Len(s) - 1)) ELSE s

\* text.strip()
Strip(s) == RStrip(LStrip(s))

\* text.lower()
Lower(s) == [i \in 1..Len(s) |-> ToLower(s[i])]

RECURSIVE SubMentions(_, _)
\* re.sub(r'@(\w+)', r'\1', text): an '@' followed by a word character is dropped
SubMentions(s, i) ==
    IF i > Len(s) THEN <<>>
    ELSE IF s[i] = "@" /\ i < Len(s) /\ IsWord(s[i + 1])
         THEN SubMentions(s, i + 1)
         ELSE <<s[i]>> \o SubMentions(s, i + 1)

\* preprocess_comments(text): always returns a str (here its characters)
preprocess_comments(text) ==
    IF NotText(text) THEN <<>>
    ELSE LET t1 == replace_emoji(text.val)
             t2 == SubUrls(t1, 1)
             t3 == SubTags(t2, 1)
             t4 == SubSymbols(t3)
             t5 == SubSpaces(t4, 1)
             t6 == Strip(t5)
             t7 == Lower(t6)
         IN  SubMentions(t7, 1)

(***************************************************************************)
(* analyze_sentiment.  The polarity scorer (vader_analyzer.polarity_scores)*)
(* is a library: what it returns for a text, or that it raises, is an      *)
(* input of the model.  Raw scores are in ten-thousandths.                 *)
(***************************************************************************)
Raises(msg) == [raises |-> TRUE, msg |-> msg]

Scores(c, pos, neu, neg) ==
    [raises |-> FALSE, compound |-> c, pos |-> pos, neu |-> neu, neg |-> neg]

NoOutcome == [raises |-> FALSE]

Abs(x) == IF x < 0 THEN -x ELSE x

\* round(x, 3) of a float given in ten-thousandths, in thousandths.  Python
\* rounds the float's exact binary value, so a decimal tie (last digit 5) goes
\* up for some values and down for others: both results are possible.
Round3(x) ==
    LET q == x \div 10
        r == x % 10
    IN  IF r < 5 THEN {q} ELSE IF r > 5 THEN {q + 1} ELSE {q, q + 1}

NeutralDefault ==
    [compound |-> 0, positive |-> 0, neutral |-> 1000, negative |-> 0,
     sentiment |-> "neutral", confidence |-> "low"]

NeutralDefaultError(msg) ==
    [compound |-> 0, positive |-> 0, neutral |-> 1000, negative |-> 0,
     sentiment |-> "neutral", confidence |-> "low", error |-> msg]

\* whether analyze_sentiment(text) calls vader_analyzer.polarity_scores
ConsultsScorer(text) == ~NotText(text)

\* analyze_sentiment without its try/except: the scorer's exception propagates
analyze_sentiment_NoExcept(text, o) ==
    IF NotText(text) THEN {NeutralDefault}
    ELSE IF o.raises THEN {[exception |-> o.msg]}
    ELSE {[compound |-> c, positive |-> p, neutral |-> u, negative |-> n,
           sentiment |-> IF o.compound >= 500 THEN "positive"
                         ELSE IF o.compound <= -500 THEN "negative" ELSE "neutral",
           confidence |-> IF Abs(o.compound) >= 5000 THEN "high"
                          ELSE IF Abs(o.compound) >= 2000 THEN "medium" ELSE "low"] :
             c \in Round3(o.compound), p \in Round3(o.pos),
             u \in Round3(o.neu), n \in Round3(o.neg)}

\* analyze_sentiment(text), o being what the scorer does when it is consulted:
\* the set of dictionaries the call can return
analyze_sentiment(text, o) ==
    IF NotText(text) THEN {NeutralDefault}
    ELSE IF o.raises THEN {NeutralDefaultError(o.msg)}
    ELSE LET compound == o.compound
             sentiment == IF compound >= 500 THEN "positive"
                          ELSE IF compound <= -500 THEN "negative"
                          ELSE "neutral"
             confidence_score == Abs(compound)
             confidence == IF confidence_score >= 5000 THEN "high"
                           ELSE IF confidence_score >= 2000 THEN "medium"
                           ELSE "low"
         IN  {[compound |-> c, positive |-> p, neutral |-> u, negative |-> n,
               sentiment |-> sentiment, confidence |-> confidence] :
                 c \in Round3(compound), p \in Round3(o.pos),
                 u \in Round3(o.neu), n \in Round3(o.neg)}

(***************************************************************************)
(* cluster_comments.  Returned sentiment values are in thousandths.        *)
(***************************************************************************)
List(s) == [type |-> "list", val |-> s]

Tuple(s) == [type |-> "tuple", val |-> s]

\* Python truthiness of the comments argument: `not comments`
NotComments(comments) ==
    comments.type = "NoneType" \/ Len(comments.val) = 0

\* str(i) of a small non-negative integer
str(i) == <<"0", "1", "2", "3", "4", "5", "6", "7", "8", "9">>[i + 1]

ValueError(message) == [ok |-> FALSE, exception |-> "ValueError", message |-> message]

\* f'Need at least {num_clusters} comments for {num_clusters} clusters'
ShortfallMessage(num_clusters) ==
    <<"Need at least ", str(num_clusters), " comments for ", str(num_clusters), " clusters">>

\* KMeans(n_clusters=...) rejects n_clusters < 1 when it is fitted
InvalidParameterError ==
    [ok |-> FALSE, exception |-> "InvalidParameterError", message |-> <<"n_clusters">>]

\* 'sentiment' in comment and 'compound' in comment['sentiment']
HasSentimentData(comment) ==
    "sentiment" \in DOMAIN comment /\ "compound" \in DOMAIN comment.sentiment

\* valid_comments: the comments with sentiment data, in input order
ValidComments(comments) == SelectSeq(comments.val, HasSentimentData)

\* Validate with the isinstance check made before the emptiness check
Validate_ListFirst(comments, num_clusters) ==
    IF comments.type # "list" THEN {ValueError(<<"comments must be an array">>)}
    ELSE IF NotComments(comments) THEN {ValueError(<<"comments array is required">>)}
    ELSE IF ValidComments(comments) = <<>>
    THEN {ValueError(<<"comments must have sentiment data">>)}
    ELSE IF Len(ValidComments(comments)) < num_clusters
    THEN {ValueError(ShortfallMessage(num_clusters))}
    ELSE {}

\* Validate with the shortfall measured on the unfiltered input
Validate_RawLength(comments, num_clusters) ==
    IF NotComments(comments) THEN {ValueError(<<"comments array is required">>)}
    ELSE IF comments.type # "list" THEN {ValueError(<<"comments must be an array">>)}
    ELSE IF ValidComments(comments) = <<>>
    THEN {ValueError(<<"comments must have sentiment data">>)}
    ELSE IF Len(comments.val) < num_clusters
    THEN {ValueError(ShortfallMessage(num_clusters))}
    ELSE {}

\* the input validation of cluster_comments: the ValueError it raises, as a set
\* that is empty when the input passes
Validate(comments, num_clusters) ==
    IF NotComments(comments) THEN {ValueError(<<"comments array is required">>)}
    ELSE IF comments.type # "list" THEN {ValueError(<<"comments must be an array">>)}
    ELSE IF ValidComments(comments) = <<>>
    THEN {ValueError(<<"comments must have sentiment data">>)}
    ELSE IF Len(ValidComments(comments)) < num_clusters
    THEN {ValueError(ShortfallMessage(num_clusters))}
    ELSE {}

RECURSIVE SumSeq(_)
SumSeq(s) == IF s = <<>> THEN 0 ELSE s[1] + SumSeq(Tail(s))

\* one row of features per valid comment, in the order compound, positive,
\* neutral, negative
Features(valid_comments) ==
    [i \in 1..Len(valid_comments) |->
        LET sentiment == valid_comments[i].sentiment
        IN  <<sentiment.compound, sentiment.positive, sentiment.neutral, sentiment.negative>>]

\* StandardScaler().fit_transform(X): z = (x - mean) / std per column, a column of
\* zero variance being left at 0.  With n rows, z = num / sqrt(den2) where
\* num = n*x - sum(x) and den2 = n*sum(x^2) - sum(x)^2, kept as the exact pair.
fit_transform(X) ==
    LET n == Len(X)
        col(d) == [i \in 1..n |-> X[i][d]]
        sum(d) == SumSeq(col(d))
        sumsq(d) == SumSeq([i \in 1..n |-> X[i][d] * X[i][d]])
        den2(d) == n * sumsq(d) - sum(d) * sum(d)
    IN  [i \in 1..n |->
            [d \in 1..4 |->
                IF den2(d) = 0 THEN [num |-> 0, den2 |-> 1]
                ELSE [num |-> n * X[i][d] - sum(d), den2 |-> den2(d)]]]

Min(a, b) == IF a < b THEN a ELSE b

\* KMeans(n_clusters, random_state=42, n_init=10).fit_predict(X_scaled): the
\* library's result is one labelling out of those its contract allows.  Labels
\* are 0..n_clusters-1; equal rows have the same nearest centre, so the same
\* label; an empty cluster is re-seeded on a point away from its centre, so the
\* labels in use are n_clusters of them unless the distinct rows are fewer
\* (sklearn then warns "Number of distinct clusters found smaller than
\* n_clusters").
fit_predict(X_scaled, n_clusters) ==
    LET n == Len(X_scaled)
        rows == {X_scaled[i] : i \in 1..n}
    IN  {labels \in [1..n -> 0..(n_clusters - 1)] :
            /\ \A i, j \in 1..n : X_scaled[i] = X_scaled[j] => labels[i] = labels[j]
            /\ Cardinality({labels[i] : i \in 1..n}) = Min(n_clusters, Cardinality(rows))}

\* num / den rounded to the nearest integer, ties to the even one (den > 0)
RoundHalfEven(num, den) ==
    LET q == num \div den
        r2 == 2 * (num % den)
    IN  IF r2 < den THEN q
        ELSE IF r2 > den THEN q + 1
        ELSE IF q % 2 = 0 THEN q ELSE q + 1

\* ClusterLabel with the top threshold strict
ClusterLabel_Strict(total, count) ==
    IF total > 300 * count THEN "highly_positive"
    ELSE IF total >= 50 * count THEN "positive"
    ELSE IF total >= -50 * count THEN "neutral"
    ELSE IF total >= -300 * count THEN "negative"
    ELSE "highly_negative"

\* the label of a cluster whose compound scores sum to total over count members:
\* avg_compound = total / count against the thresholds 0.3, 0.05, -0.05, -0.3
ClusterLabel(total, count) ==
    IF total >= 300 * count THEN "highly_positive"
    ELSE IF total >= 50 * count THEN "positive"
    ELSE IF total >= -50 * count THEN "neutral"
    ELSE IF total >= -300 * count THEN "negative"
    ELSE "highly_negative"

Count(s, x) == Cardinality({i \in 1..Len(s) : s[i] = x})

\* max(sentiment_counts, key=sentiment_counts.get): the first key, in the order
\* positive, negative, neutral, whose count is the largest
DominantSentiment(counts) ==
    IF counts.positive >= counts.negative /\ counts.positive >= counts.neutral
    THEN "positive"
    ELSE IF counts.negative >= counts.neutral THEN "negative" ELSE "neutral"

\* {**comment, 'cluster': cluster_id} and then comment['cluster_label'] = label
WithCluster(comment, cluster_id, label) ==
    ("cluster" :> cluster_id) @@ ("cluster_label" :> label) @@ comment

\* MembersOf that also collects the comments of the clusters before cluster_id
MembersOf_UpTo(clustered_comments, cluster_id) ==
    SelectSeq(clustered_comments, LAMBDA cm : cm.cluster <= cluster_id)

\* cluster_data[cluster_id]['comments']: the clustered comments appended to it
MembersOf(clustered_comments, cluster_id) ==
    SelectSeq(clustered_comments, LAMBDA cm : cm.cluster = cluster_id)

\* the part of cluster_comments after fit_predict, for one labelling
Assemble(valid_comments, num_clusters, cluster_labels) ==
    LET n == Len(valid_comments)
        ids == {cluster_labels[i] : i \in 1..n}
        members(c) == {i \in 1..n : cluster_labels[i] = c}
        \* cluster_data[c], its lists in the order of valid_comments
        compound_scores(c) ==
            LET idx == SelectSeq([i \in 1..n |-> i], LAMBDA i : i \in members(c))
            IN  [m \in 1..Len(idx) |-> valid_comments[idx[m]].sentiment.compound]
        sentiments(c) ==
            LET idx == SelectSeq([i \in 1..n |-> i], LAMBDA i : i \in members(c))
            IN  [m \in 1..Len(idx) |-> valid_comments[idx[m]].sentiment.sentiment]
        label(c) == ClusterLabel(SumSeq(compound_scores(c)), Len(compound_scores(c)))
        clustered_comments ==
            [i \in 1..n |->
                WithCluster(valid_comments[i], cluster_labels[i], label(cluster_labels[i]))]
        data_comments(c) == MembersOf(clustered_comments, c)
        sentiment_counts(c) ==
            [positive |-> Count(sentiments(c), "positive"),
             negative |-> Count(sentiments(c), "negative"),
             neutral |-> Count(sentiments(c), "neutral")]
        clusters_info ==
            [key \in {str(c) : c \in ids} |->
                LET c == CHOOSE c \in ids : str(c) = key
                IN  [label |-> label(c),
                     dominant_sentiment |-> DominantSentiment(sentiment_counts(c)),
                     count |-> Len(data_comments(c)),
                     \* in hundredths of a percent
                     percentage |-> RoundHalfEven(Len(data_comments(c)) * 10000, n),
                     average_compound |->
                         RoundHalfEven(SumSeq(compound_scores(c)), Len(compound_scores(c))),
                     sentiment_counts |-> sentiment_counts(c),
                     comments |-> data_comments(c)]]
        statistics ==
            [total_comments |-> n,
             num_clusters |-> num_clusters,
             clustering_method |-> "K-Means",
             features_used |-> <<"compound", "positive", "neutral", "negative">>]
    IN  [ok |-> TRUE,
         clustered_comments |-> clustered_comments,
         clusters_info |-> clusters_info,
         statistics |-> statistics]

\* cluster_comments(comments, num_clusters): the set of its possible outcomes,
\* a raised exception or the returned triple
cluster_comments(comments, num_clusters) ==
    IF Validate(comments, num_clusters) # {} THEN Validate(comments, num_clusters)
    ELSE IF num_clusters < 1 THEN {InvalidParameterError}
    ELSE LET valid_comments == ValidComments(comments)
         IN  {Assemble(valid_comments, num_clusters, labels) :
                 labels \in fit_predict(fit_transform(Features(valid_comments)),
                                        num_clusters)}

(***************************************************************************)
(* Values of a harness that is not running.                                *)
(***************************************************************************)
NormIdle == npc = "idle" /\ raw = None /\ cleaned = <<>> /\ recleaned = <<>>

ScoreIdle ==
    /\ spc = "idle"
    /\ s_text = None
    /\ s_outcome = NoOutcome
    /\ s_result = NeutralDefault
    /\ s_consulted = FALSE

NoResult == [ok |-> FALSE]

ClusterIdle == cpc = "idle" /\ c_comments = None /\ c_k = 0 /\ c_result = NoResult

NoResponse == [status |-> 0]

PipeIdle ==
    /\ pc = "idle"
    /\ p_comments = <<>>
    /\ p_num_clusters = 0
    /\ p_idx = 0
    /\ raised = {}
    /\ cluster_input = None
    /\ response = NoResponse

(***************************************************************************)
(* Normaliser harness: normalise an input, then normalise the result.      *)
(***************************************************************************)
NormInit ==
    /\ npc = "input"
    /\ raw \in {None} \cup {Str(s) : s \in Strings(MaxLen)}
    /\ cleaned = <<>>
    /\ recleaned = <<>>
    /\ ScoreIdle /\ ClusterIdle /\ PipeIdle

Preprocess ==
    /\ npc = "input"
    /\ cleaned' = preprocess_comments(raw)
    /\ npc' = "once"
    /\ UNCHANGED <<raw, recleaned, scoreVars, clusterVars, pipeVars>>

PreprocessAgain ==
    /\ npc = "once"
    /\ recleaned' = preprocess_comments(Str(cleaned))
    /\ npc' = "twice"
    /\ UNCHANGED <<raw, cleaned, scoreVars, clusterVars, pipeVars>>

NormNext == Preprocess \/ PreprocessAgain

SpecNorm == NormInit /\ [][NormNext]_vars

(***************************************************************************)
(* Scorer harness: one call of analyze_sentiment on a text.                *)
(***************************************************************************)
MaxTextLen == 2

MaxRawCompound == 5100

ScoreTexts == {None} \cup {Str(s) : s \in UNION {[1..m -> {" ", "h"}] : m \in 0..MaxTextLen}}

\* pos, neu, neg of the scorer sum to 1
ScorerOutcomes ==
    {Raises("scorer failed")} \cup
    {Scores(c, pos, 10000 - pos - neg, neg) :
        c \in (-MaxRawCompound)..MaxRawCompound, pos \in {0, 2505}, neg \in {0, 5000}}

ScoreInit ==
    /\ spc = "input"
    /\ s_text \in ScoreTexts
    /\ s_outcome = NoOutcome
    /\ s_result = NeutralDefault
    /\ s_consulted = FALSE
    /\ NormIdle /\ ClusterIdle /\ PipeIdle

Analyze ==
    /\ spc = "input"
    /\ \E o \in IF ConsultsScorer(s_text) THEN ScorerOutcomes ELSE {NoOutcome} :
          /\ s_outcome' = o
          /\ s_result' \in analyze_sentiment(s_text, o)
    /\ s_consulted' = ConsultsScorer(s_text)
    /\ spc' = "returned"
    /\ UNCHANGED <<s_text, normVars, clusterVars, pipeVars>>

ScoreNext == Analyze

SpecScore == ScoreInit /\ [][ScoreNext]_vars

(***************************************************************************)
(* Sample scorer outputs for whole batches: compounds on and around the    *)
(* thresholds of the labels, with pos/neu/neg summing to 1.                *)
(***************************************************************************)
SampleCompounds == {-3500, -3000, -500, 0, 500, 3000, 3500}

SampleScores(c) ==
    Scores(c, IF c > 0 THEN c ELSE 0, 10000 - Abs(c), IF c < 0 THEN -c ELSE 0)

\* the sentiment dictionaries analyze_sentiment returns for the sample outputs
SampleSentiments ==
    UNION {analyze_sentiment(Str(<<"h">>), SampleScores(c)) : c \in SampleCompounds}

MaxComments == 3

MaxK == 4

(***************************************************************************)
(* Cluster engine harness: one call cluster_comments(comments, k).         *)
(***************************************************************************)
\* a comment dictionary without its id: no 'sentiment', a 'sentiment' without
\* 'compound', or a scored comment
ItemBodies ==
    {[text |-> <<"h">>]} \cup
    {[text |-> <<"h">>, sentiment |-> [sentiment |-> "neutral"]]} \cup
    {[text |-> <<"h">>, sentiment |-> s] : s \in SampleSentiments}

WithIds(bodies) == [i \in 1..Len(bodies) |-> ("id" :> i) @@ bodies[i]]

CommentLists(n) == {WithIds(b) : b \in UNION {[1..m -> ItemBodies] : m \in 0..n}}

ClusterInputs ==
    {None} \cup {List(s) : s \in CommentLists(MaxComments)}
           \cup {Tuple(s) : s \in CommentLists(1)}

ClusterInit ==
    /\ cpc = "input"
    /\ c_comments \in ClusterInputs
    /\ c_k \in 0..MaxK
    /\ c_result = NoResult
    /\ NormIdle /\ ScoreIdle /\ PipeIdle

ClusterCall ==
    /\ cpc = "input"
    /\ c_result' \in cluster_comments(c_comments, c_k)
    /\ cpc' = "returned"
    /\ UNCHANGED <<c_comments, c_k, normVars, scoreVars, pipeVars>>

ClusterNext == ClusterCall

SpecCluster == ClusterInit /\ [][ClusterNext]_vars

(***************************************************************************)
(* The /api/cluster-comments request: fetch and preprocess, score every    *)
(* comment, cluster.                                                       *)
(***************************************************************************)
\* raw comment texts: one that cleans to the empty string, one that does not
PipeTexts == {<<"emoji">>, <<"H", " ">>}

\* what the scorer does for a comment of the batch
PipeOutcomes == {Raises("scorer failed")} \cup {SampleScores(c) : c \in {-3500, 0, 3000}}

\* fetch_and_preprocess_comments: the processed comment of one fetched comment
Processed(id, text) ==
    [id |-> id,
     author |-> preprocess_comments(Str(<<"@", "H">>)),
     text |-> text,
     cleaned_text |-> preprocess_comments(Str(text))]

Init ==
    /\ pc = "request"
    /\ p_comments = <<>>
    /\ p_num_clusters = 0
    /\ p_idx = 0
    /\ raised = {}
    /\ cluster_input = None
    /\ response = NoResponse
    /\ NormIdle /\ ScoreIdle /\ ClusterIdle

\* the request is refused before anything is fetched
BadRequest ==
    /\ pc = "request"
    /\ \E error \in {"video_url is required", "Invalid YouTube URL"} :
          response' = [status |-> 400, error |-> error]
    /\ pc' = "responded"
    /\ UNCHANGED <<p_comments, p_num_clusters, p_idx, raised, cluster_input,
                   normVars, scoreVars, clusterVars>>

\* comments = fetch_and_preprocess_comments(video_id), and the 404 of an empty batch
Fetch ==
    /\ pc = "request"
    /\ \E texts \in UNION {[1..m -> PipeTexts] : m \in 0..MaxComments}, k \in 0..MaxK :
          /\ p_comments' = [i \in 1..Len(texts) |-> Processed(i, texts[i])]
          /\ p_num_clusters' = k
          /\ IF Len(texts) = 0
             THEN /\ response' = [status |-> 404, error |-> "No comments found for this video"]
                  /\ pc' = "responded"
                  /\ p_idx' = 0
             ELSE /\ response' = response
                  /\ pc' = "scoring"
                  /\ p_idx' = 1
    /\ UNCHANGED <<raised, cluster_input, normVars, scoreVars, clusterVars>>

\* one turn of the scoring loop: comment['sentiment'] = analyze_sentiment(cleaned_text);
\* an exception leaving analyze_sentiment would end the request in the handler's
\* except clause
ScoreComment ==
    /\ pc = "scoring"
    /\ p_idx <= Len(p_comments)
    /\ LET cleaned_text == Str(p_comments[p_idx].cleaned_text)
       IN  \E o \in IF ConsultsScorer(cleaned_text) THEN PipeOutcomes ELSE {NoOutcome} :
           \E sentiment_result \in analyze_sentiment(cleaned_text, o) :
              /\ raised' = IF ConsultsScorer(cleaned_text) /\ o.raises
                           THEN raised \cup {p_idx} ELSE raised
              /\ IF "exception" \in DOMAIN sentiment_result
                 THEN /\ response' = [status |-> 500, error |-> sentiment_result.exception]
                      /\ pc' = "responded"
                      /\ UNCHANGED <<p_comments, p_idx>>
                 ELSE /\ p_comments' =
                            [p_comments EXCEPT
                                ![p_idx] = ("sentiment" :> sentiment_result) @@ @]
                      /\ p_idx' = p_idx + 1
                      /\ UNCHANGED <<pc, response>>
    /\ UNCHANGED <<p_num_clusters, cluster_input, normVars, scoreVars, clusterVars>>

\* ClusterStart without waiting for the end of the scoring loop
ClusterStart_Early ==
    /\ pc = "scoring"
    /\ p_idx >= 1
    /\ cluster_input' = List(p_comments)
    /\ pc' = "clustering"
    /\ UNCHANGED <<p_comments, p_num_clusters, p_idx, raised, response,
                   normVars, scoreVars, clusterVars>>

\* the loop is over: cluster_comments(comments, num_clusters) is called
ClusterStart ==
    /\ pc = "scoring"
    /\ p_idx > Len(p_comments)
    /\ cluster_input' = List(p_comments)
    /\ pc' = "clustering"
    /\ UNCHANGED <<p_comments, p_num_clusters, p_idx, raised, response,
                   normVars, scoreVars, clusterVars>>

\* cluster_comments returns or raises, and the response is built
ClusterReturn ==
    /\ pc = "clustering"
    /\ \E outcome \in cluster_comments(cluster_input, p_num_clusters) :
          response' =
              IF outcome.ok
              THEN [status |-> 200, success |-> TRUE,
                    comments |-> outcome.clustered_comments,
                    clusters |-> outcome.clusters_info,
                    statistics |-> outcome.statistics]
              ELSE [status |-> 500, error |-> outcome.message]
    /\ pc' = "responded"
    /\ UNCHANGED <<p_comments, p_num_clusters, p_idx, raised, cluster_input,
                   normVars, scoreVars, clusterVars>>

Next == BadRequest \/ Fetch \/ ScoreComment \/ ClusterStart \/ ClusterReturn

Spec == Init /\ [][Next]_vars

(***************************************************************************)
(* Properties of the cluster engine (SpecCluster).                         *)
(***************************************************************************)
\* an item carries a sentiment vector
Scored(item) == "sentiment" \in DOMAIN item /\ "compound" \in DOMAIN item.sentiment

\* the items of a list that carry a sentiment vector, by position
ScoredAt(items) == {i \in 1..Len(items) : Scored(items[i])}

ReturnedOk == cpc = "returned" /\ c_result.ok

\* the call failed with this ValueError and returned nothing
FailedWith(message) ==
    /\ c_result = ValueError(message)
    /\ DOMAIN c_result \cap {"clustered_comments", "clusters_info", "statistics"} = {}

\* C1: cluster_comments reports the first failing check, in the order: empty or
\* null input ('comments array is required'), non-empty input that is not a list
\* ('comments must be an array'), list without any scored item ('comments must
\* have sentiment data'); the call then returns no comments, clusters or statistics.
C1_ValidationOrder ==
    cpc = "returned" =>
        /\ (c_comments = None \/ (c_comments # None /\ Len(c_comments.val) = 0))
               => FailedWith(<<"comments array is required">>)
        /\ (c_comments # None /\ Len(c_comments.val) > 0 /\ c_comments.type # "list")
               => FailedWith(<<"comments must be an array">>)
        /\ (c_comments # None /\ Len(c_comments.val) > 0 /\ c_comments.type = "list"
                /\ ScoredAt(c_comments.val) = {})
               => FailedWith(<<"comments must have sentiment data">>)

\* null input, which is both empty and not a list, is reported as missing
C1_Witness ==
    /\ cpc = "returned"
    /\ c_comments = None
    /\ c_result.message = <<"comments array is required">>

\* C2: with v the number of scored items of the list (not its length), 1 <= v < k
\* fails with 'Need at least k comments for k clusters'; v >= k does not fail with
\* the shortfall.
C2_Shortfall ==
    (cpc = "returned" /\ c_comments # None /\ c_comments.type = "list") =>
        LET v == Cardinality(ScoredAt(c_comments.val))
            shortfall == ValueError(<<"Need at least ", str(c_k), " comments for ",
                                      str(c_k), " clusters">>)
        IN  /\ (1 <= v /\ v < c_k) => c_result = shortfall
            /\ v >= c_k => c_result # shortfall

\* three items of which two are scored, k = 3: the filtered count decides
C2_Witness ==
    /\ cpc = "returned"
    /\ c_comments # None /\ c_comments.type = "list"
    /\ Len(c_comments.val) = 3
    /\ Cardinality(ScoredAt(c_comments.val)) = 2
    /\ c_k = 3
    /\ c_result.message[2] = "3"

\* C3: every successful run returns a cluster mapping with exactly k entries.
C3_ExactlyK ==
    ReturnedOk => Cardinality(DOMAIN c_result.clusters_info) = c_k

RECURSIVE SumCounts(_, _)
SumCounts(info, keys) ==
    IF keys = {} THEN 0
    ELSE LET key == CHOOSE key \in keys : TRUE
         IN  info[key].count + SumCounts(info, keys \ {key})

\* how many times the comment with this id occurs in a list
Occurrences(list, id) == Cardinality({j \in 1..Len(list) : list[j].id = id})

\* C4: after a successful run the clusters partition the valid comments: each
\* scored input comment is once in clustered_comments, in input order, and in the
\* member list of exactly one entry, the one whose key is its 'cluster'; its
\* 'cluster_label' is that entry's label; every count is the length of the member
\* list; the counts sum to statistics.total_comments, the number of scored comments.
C4_Partition ==
    ReturnedOk =>
        LET valid == SelectSeq(c_comments.val, Scored)
            cc == c_result.clustered_comments
            info == c_result.clusters_info
        IN  /\ Len(cc) = Len(valid)
            /\ \A i \in 1..Len(cc) :
                  /\ cc[i].id = valid[i].id
                  /\ cc[i].sentiment = valid[i].sentiment
                  /\ str(cc[i].cluster) \in DOMAIN info
                  /\ \A key \in DOMAIN info :
                        Occurrences(info[key].comments, cc[i].id)
                            = IF key = str(cc[i].cluster) THEN 1 ELSE 0
                  /\ cc[i].cluster_label = info[str(cc[i].cluster)].label
            /\ \A key \in DOMAIN info : info[key].count = Len(info[key].comments)
            /\ SumCounts(info, DOMAIN info) = c_result.statistics.total_comments
            /\ c_result.statistics.total_comments = Len(valid)

\* a run that drops an unscored item and puts the rest into several clusters
C4_Witness ==
    /\ ReturnedOk
    /\ Len(c_result.clustered_comments) < Len(c_comments.val)
    /\ Cardinality(DOMAIN c_result.clusters_info) >= 2

\* the sum of the members' compound scores, in thousandths
RECURSIVE CompoundSum(_)
CompoundSum(members) ==
    IF members = <<>> THEN 0
    ELSE members[1].sentiment.compound + CompoundSum(Tail(members))

C5_ScoringDegrades ==
    /\ \A i \in raised :
          /\ i <= Len(p_comments)
          /\ "sentiment" \in DOMAIN p_comments[i]
          /\ p_comments[i].sentiment =
                 [compound |-> 0, positive |-> 0, neutral |-> 1000, negative |-> 0,
                  sentiment |-> "neutral", confidence |-> "low",
                  error |-> "scorer failed"]
    /\ (pc \in {"clustering", "responded"} /\ Len(p_comments) > 0) =>
          /\ cluster_input # None
          /\ cluster_input.type = "list"
          /\ Len(cluster_input.val) = Len(p_comments)
          /\ \A i \in 1..Len(p_comments) :
                Scored(cluster_input.val[i]) /\ cluster_input.val[i].id = p_comments[i].id

\* the scorer failed on the first comment, and a later comment was still scored
\* and reached the cluster engine
C5_Witness ==
    /\ pc = "clustering"
    /\ 1 \in raised
    /\ Len(cluster_input.val) >= 2
    /\ cluster_input.val[2].sentiment.compound # 0

\* the cluster engine has been called in this request
ClusterStarted == pc = "clustering" \/ (pc = "responded" /\ cluster_input # None)

\* the sentiment a comment of the batch carries, None when it has none yet
SentimentOf(comment) ==
    IF "sentiment" \in DOMAIN comment THEN comment.sentiment ELSE None

\* C11: clustering is a barrier after scoring: the cluster engine is called only
\* when every comment of the batch has been normalised and scored, so every
\* comment it receives carries a sentiment vector, and no comment is scored
\* (no sentiment is set or changed) once clustering has started.
C11_Barrier ==
    /\ [](ClusterStarted =>
            /\ p_idx = Len(p_comments) + 1
            /\ Len(cluster_input.val) = Len(p_comments)
            /\ \A i \in 1..Len(p_comments) :
                  /\ "cleaned_text" \in DOMAIN cluster_input.val[i]
                  /\ Scored(cluster_input.val[i])
                  /\ cluster_input.val[i] = p_comments[i])
    /\ [][ClusterStarted =>
            /\ ClusterStarted'
            /\ Len(p_comments') = Len(p_comments)
            /\ \A i \in 1..Len(p_comments) :
                  SentimentOf(p_comments'[i]) = SentimentOf(p_comments[i])]_vars

\* the engine is running on a batch of several comments, all of them scored
C11_Witness ==
    /\ pc = "clustering"
    /\ Len(cluster_input.val) = MaxComments
    /\ \A i \in 1..Len(cluster_input.val) : Scored(cluster_input.val[i])
    /\ raised = {}

(***************************************************************************)
(* Properties of the scorer (SpecScore).                                   *)
(***************************************************************************)
\* C6: in every returned vector the label is the threshold class of the returned
\* compound: positive iff compound >= 0.05, negative iff compound <= -0.05,
\* neutral iff strictly between.
C6_LabelOfReturnedCompound ==
    spc = "returned" =>
        /\ s_result.sentiment = "positive" <=> s_result.compound >= 50
        /\ s_result.sentiment = "negative" <=> s_result.compound <= -50
        /\ s_result.sentiment = "neutral" <=>
               (-50 < s_result.compound /\ s_result.compound < 50)

\* a text is empty or holds only whitespace
Blank(text) == text # None /\ \A i \in 1..Len(text.val) : text.val[i] = " "

\* C7: for an empty or whitespace-only text the result is exactly the neutral
\* default, without an 'error' field, and the polarity scorer is not consulted.
C7_BlankIsDefault ==
    (spc = "returned" /\ Blank(s_text)) =>
        /\ s_result = [compound |-> 0, positive |-> 0, neutral |-> 1000, negative |-> 0,
                       sentiment |-> "neutral", confidence |-> "low"]
        /\ ~s_consulted

(***************************************************************************)
(* Properties of the normaliser (SpecNorm).                                *)
(***************************************************************************)
\* C8: preprocess_comments is idempotent: normalising its result changes nothing.
C8_Idempotent == npc = "twice" => recleaned = cleaned

Contains(s, lit) == \E i \in 1..Len(s) : HasAt(s, i, lit)

\* C9: the result holds no 'http' and no 'www', no '<', '>' or '@', no upper-case
\* letter, no leading, trailing or doubled whitespace, and only word characters,
\* single spaces and . , ! ? - ' "; the empty string and null give the empty string.
C9_CleanOutput ==
    npc \in {"once", "twice"} =>
        /\ ~Contains(cleaned, <<"h", "t", "t", "p">>)
        /\ ~Contains(cleaned, <<"w", "w", "w">>)
        /\ \A i \in 1..Len(cleaned) :
              /\ cleaned[i] \notin {"<", ">", "@"}
              /\ cleaned[i] \notin UpperWord
              /\ cleaned[i] \in LowerWord \cup {" "} \cup {".", ",", "!", "?", "-", "'", "\""}
              /\ cleaned[i] = " " => (1 < i /\ i < Len(cleaned) /\ cleaned[i + 1] # " ")
        /\ (raw = None \/ raw = Str(<<>>)) => cleaned = <<>>

=============================================================================
